---- MODULE Spec2Model ----
(***************************************************************************)
(* A model of wc_rs (src/src/main.rs): the Flux summary of a byte range,   *)
(* its span (merge), the rayon fold/reduce of flux_over_byte_string and    *)
(* the buffer loop of wc.                                                  *)
(*                                                                         *)
(* Option<Flux> is modelled as a sequence of length at most one:           *)
(* None is << >> and Some(f) is <<f>>.                                     *)
(***************************************************************************)
EXTENDS Integers, Sequences, FiniteSets, TLC

\* ------------------------------------------------------------------ bounds
\* Longest input (in bytes) given to wc or to flux_over_byte_string.
MaxLen == 4
\* Most sub-ranges one buffer is divided into by the parallel iterator.
MaxParts == 4
\* Largest words / lines field of an arbitrary Flux handed to span_opt.
MaxCount == 2
\* Longest of the three adjacent byte ranges whose Fluxes are spanned.
MaxRange == 2

\* The bytes inputs are made of: '\t', '\n', vertical tab, ' ', 'a', 0xC8.
Alphabet == {9, 10, 11, 32, 97, 200}
\* The bytes the streamed inputs of wc are made of: '\n', ' ', 'a'.
StreamAlphabet == {10, 32, 97}

AllBytes == 0 .. 255

\* All byte strings over A of length at most n.
SeqsUpTo(A, n) == UNION {[1 .. k -> A] : k \in 0 .. n}

\* ------------------------------------------------------------ CharType
IsSpace == "IsSpace"
NotSpace == "NotSpace"
CharType == {IsSpace, NotSpace}

\* ---------------------------------------------------------------- Flux
\* Flux::new
FluxNew(leftmost_char_type, words, lines, rightmost_char_type) ==
    [leftmost_char_type |-> leftmost_char_type,
     words |-> words,
     lines |-> lines,
     rightmost_char_type |-> rightmost_char_type]

None == << >>
Some(f) == <<f>>

\* u8::is_ascii_whitespace: U+0020 SPACE, U+0009 TAB, U+000A LINE FEED,
\* U+000C FORM FEED, U+000D CARRIAGE RETURN (and no other byte).
is_ascii_whitespace(b) == b \in {32, 9, 10, 12, 13}

\* usize subtraction self.words + rhs.words - 1.  A sum of 0 underflows:
\* the debug build panics and the release build wraps to usize::MAX; both
\* outcomes are represented by the value -1, which is no valid count.
SubOne(n) == IF n = 0 THEN 0 - 1 ELSE n - 1

\* span without the boundary correction: the words are always summed.
spanSum(self, rhs) ==
    FluxNew(self.leftmost_char_type, self.words + rhs.words,
            self.lines + rhs.lines, rhs.rightmost_char_type)

\* span whose correction looks at the left operand's leftmost character
\* instead of its rightmost one.
spanWrongEnd(self, rhs) ==
    LET words == IF self.leftmost_char_type = NotSpace
                    /\ rhs.leftmost_char_type = NotSpace
                 THEN SubOne(self.words + rhs.words)
                 ELSE self.words + rhs.words
    IN  FluxNew(self.leftmost_char_type, words, self.lines + rhs.lines,
                rhs.rightmost_char_type)

\* span taking the rightmost character type from the left operand.
spanKeepRight(self, rhs) ==
    LET words == IF self.rightmost_char_type = NotSpace
                    /\ rhs.leftmost_char_type = NotSpace
                 THEN SubOne(self.words + rhs.words)
                 ELSE self.words + rhs.words
    IN  FluxNew(self.leftmost_char_type, words, self.lines + rhs.lines,
                self.rightmost_char_type)

\* span correcting the sum when either side of the boundary is NotSpace
\* (|| for &&).
spanEither(self, rhs) ==
    LET words == IF self.rightmost_char_type = NotSpace
                    \/ rhs.leftmost_char_type = NotSpace
                 THEN SubOne(self.words + rhs.words)
                 ELSE self.words + rhs.words
    IN  FluxNew(self.leftmost_char_type, words, self.lines + rhs.lines,
                rhs.rightmost_char_type)

\* span correcting the sum at every boundary.
spanAlways(self, rhs) ==
    FluxNew(self.leftmost_char_type, SubOne(self.words + rhs.words),
            self.lines + rhs.lines, rhs.rightmost_char_type)

\* Flux::span
span(self, rhs) ==
    LET lines == self.lines + rhs.lines
        words == IF self.rightmost_char_type = NotSpace
                    /\ rhs.leftmost_char_type = NotSpace
                 THEN SubOne(self.words + rhs.words)
                 ELSE self.words + rhs.words
    IN  FluxNew(self.leftmost_char_type, words, lines, rhs.rightmost_char_type)

\* From counting a carriage return as a line as well.
FromCrLine(other) ==
    IF is_ascii_whitespace(other)
    THEN FluxNew(IsSpace, 0, IF other \in {10, 13} THEN 1 ELSE 0, IsSpace)
    ELSE FluxNew(NotSpace, 1, 0, NotSpace)

\* impl From<u8> for Flux
From(other) ==
    IF is_ascii_whitespace(other)
    THEN LET lines == IF other = 10 THEN 1 ELSE 0
         IN  FluxNew(IsSpace, 0, lines, IsSpace)
    ELSE FluxNew(NotSpace, 1, 0, NotSpace)

\* span_opt: lhs.map_or(rhs, |l| rhs.map(|r| l.span(r)))
span_opt(lhs, rhs) ==
    IF lhs = None THEN rhs
    ELSE IF rhs = None THEN None
    ELSE Some(span(lhs[1], rhs[1]))

\* The closure given to fold: |acc, next| span_opt(acc, Some(next))
fold_op(acc, next) == span_opt(acc, Some(next))

\* The closure given to reduce: |acc, next| span_opt(acc, next)
reduce_op(acc, next) == span_opt(acc, next)

\* One worker's sequential fold of a sub-range, starting from the identity
\* None: .map(Flux::from).fold(|| None, fold_op)
RECURSIVE FoldFrom(_, _)
FoldFrom(acc, s) ==
    IF s = << >> THEN acc
    ELSE FoldFrom(fold_op(acc, From(Head(s))), Tail(s))

\* A leaf of the reduction: the reduce identity None combined with the
\* worker's fold result.
LeafResult(s) == reduce_op(None, FoldFrom(None, s))

\* flux_over_byte_string when the parallel iterator does not split the
\* input: one worker folds the whole byte string.
flux_over_byte_string(input) == LeafResult(input)


\* ------------------------------------------------------------------ state
VARIABLES
    input,      \* the bytes of the source (wc) or of the byte string (harness)
    pos,        \* wc: bytes of the source already consumed (input.consume)
    pc,         \* position in wc ("fill", "got", "reduce", "merge", "consume",
                \* "done", "err") or in a function call ("call", "reduce", "ret")
    bytes,      \* wc: let mut bytes
    flux,       \* wc: let mut flux
    length,     \* wc: let length = buffer.len()
    parts,      \* the sub-ranges of the buffer in position order, each still
                \* to be folded by a worker or already a partial Option<Flux>
    ret,        \* what wc returned: << >> (running), <<"Err">>, <<"Ok", Counts>>
    requests,   \* number of fill_buf calls made so far
    failed,     \* whether a fill_buf call has failed
    delivered,  \* history: the bytes handed to flux_over_byte_string so far,
                \* buffer after buffer
    prev,       \* history: the Counts an earlier run of wc on this input
                \* returned (<< >> when there was none)
    call,       \* harness: the function under test
    args,       \* harness: its arguments
    out         \* harness: its results (<< >> until it returned)

vars == <<input, pos, pc, bytes, flux, length, parts, ret, requests, failed,
          delivered, prev, call, args, out>>

wcVars == <<pos, bytes, flux, ret, requests, failed, delivered, prev>>
harnessVars == <<call, args, out>>

\* Counts { bytes, words, lines }
Counts(b, w, l) == [bytes |-> b, words |-> w, lines |-> l]

\* The buffer lent by fill_buf: the next `length` unconsumed bytes.
buffer == SubSeq(input, pos + 1, pos + length)

\* A sub-range [lo, hi) of the buffer not yet folded.
Todo(lo, hi) == [lo |-> lo, hi |-> hi, done |-> FALSE, val |-> None]
\* The partial result of the sub-range [lo, hi).
Done(lo, hi, v) == [lo |-> lo, hi |-> hi, done |-> TRUE, val |-> v]

\* s with its elements i and i+1 replaced by the single element e.
Join(s, i, e) == SubSeq(s, 1, i - 1) \o <<e>> \o SubSeq(s, i + 2, Len(s))
\* s with its element i replaced by the two elements a, b.
Fork(s, i, a, b) == SubSeq(s, 1, i - 1) \o <<a, b>> \o SubSeq(s, i + 1, Len(s))

\* --------------------------------------- flux_over_byte_string, in parallel
\* par_iter: the producer of sub-range i is split in two at offset m.  rayon
\* splits a slice only while it holds at least two items and never into an
\* empty half (it cuts at len / 2; any interior offset is allowed here), so
\* every worker of a non-empty buffer gets a non-empty sub-range.
Split(i, m) ==
    /\ pc = "reduce"
    /\ Len(parts) < MaxParts
    /\ ~parts[i].done
    /\ parts[i].lo < m /\ m < parts[i].hi
    /\ parts' = Fork(parts, i, Todo(parts[i].lo, m), Todo(m, parts[i].hi))
    /\ UNCHANGED <<input, pc, length>>
    /\ UNCHANGED wcVars
    /\ UNCHANGED harnessVars

\* What the contract of fold(|| None, ..) and reduce(|| None, ..) allows
\* beyond that: the identity None inserted anywhere in the sequence, i.e. a
\* worker left with an empty sub-range at either end of sub-range i (m is
\* its lo or its hi).
SplitEmpty(i, m) ==
    /\ pc = "reduce"
    /\ Len(parts) < MaxParts
    /\ ~parts[i].done
    /\ m \in {parts[i].lo, parts[i].hi}
    /\ parts' = Fork(parts, i, Todo(parts[i].lo, m), Todo(m, parts[i].hi))
    /\ UNCHANGED <<input, pc, length>>
    /\ UNCHANGED wcVars
    /\ UNCHANGED harnessVars

\* A worker folds its sub-range and hands the result to the reducer.
FoldLeaf(i) ==
    /\ pc = "reduce"
    /\ ~parts[i].done
    /\ parts' = [parts EXCEPT ![i] =
                    Done(@.lo, @.hi, LeafResult(SubSeq(buffer, @.lo + 1, @.hi)))]
    /\ UNCHANGED <<input, pc, length>>
    /\ UNCHANGED wcVars
    /\ UNCHANGED harnessVars

\* reduce combining two adjacent partial results in completion order: the
\* right one as acc and the left one as next.
ReduceCompletionOrder(i) ==
    /\ pc = "reduce"
    /\ parts[i].done
    /\ parts[i + 1].done
    /\ parts' = Join(parts, i, Done(parts[i].lo, parts[i + 1].hi,
                                    reduce_op(parts[i + 1].val, parts[i].val)))
    /\ UNCHANGED <<input, pc, length>>
    /\ UNCHANGED wcVars
    /\ UNCHANGED harnessVars

\* reduce: the partial results of two adjacent sub-ranges are combined, the
\* left one as acc and the right one as next.
Reduce(i) ==
    /\ pc = "reduce"
    /\ parts[i].done
    /\ parts[i + 1].done
    /\ parts' = Join(parts, i, Done(parts[i].lo, parts[i + 1].hi,
                                    reduce_op(parts[i].val, parts[i + 1].val)))
    /\ UNCHANGED <<input, pc, length>>
    /\ UNCHANGED wcVars
    /\ UNCHANGED harnessVars

\* The reduction is over: one partial result covers the whole buffer.
Reduced == Len(parts) = 1 /\ parts[1].done


\* ---------------------------------------------------------------------- wc
\* input.fill_buf()? succeeds with a non-empty buffer of length n.
FillBuf(n) ==
    /\ pc = "fill"
    /\ requests' = requests + 1
    /\ length' = n
    /\ pc' = "got"
    /\ UNCHANGED <<input, pos, bytes, flux, parts, ret, failed, delivered, prev>>
    /\ UNCHANGED harnessVars

\* input.fill_buf()? succeeds with an empty buffer (end of input): the loop
\* breaks and wc returns Ok(Counts { .. }).
FillBufEof ==
    /\ pc = "fill"
    /\ pos = Len(input)
    /\ requests' = requests + 1
    /\ length' = 0
    /\ ret' = <<"Ok", Counts(bytes,
                             IF flux = None THEN 0 ELSE flux[1].words,
                             IF flux = None THEN 0 ELSE flux[1].lines)>>
    /\ pc' = "done"
    /\ UNCHANGED <<input, pos, bytes, flux, parts, failed, delivered, prev>>
    /\ UNCHANGED harnessVars

\* A failed fill_buf taken for the end of the input: the loop breaks and wc
\* returns the Counts of what it has read.
FillBufErrAsEof ==
    /\ pc = "fill"
    /\ requests' = requests + 1
    /\ failed' = TRUE
    /\ ret' = <<"Ok", Counts(bytes,
                             IF flux = None THEN 0 ELSE flux[1].words,
                             IF flux = None THEN 0 ELSE flux[1].lines)>>
    /\ pc' = "done"
    /\ UNCHANGED <<input, pos, bytes, flux, length, parts, delivered, prev>>
    /\ UNCHANGED harnessVars

\* input.fill_buf()? fails: the ? operator returns the error from wc.
FillBufErr ==
    /\ pc = "fill"
    /\ requests' = requests + 1
    /\ failed' = TRUE
    /\ ret' = <<"Err">>
    /\ pc' = "err"
    /\ UNCHANGED <<input, pos, bytes, flux, length, parts, delivered, prev>>
    /\ UNCHANGED harnessVars

\* The byte counter overwritten with the buffer's length instead of
\* increased by it.
CountBytesAssign ==
    /\ pc = "got"
    /\ bytes' = length
    /\ parts' = <<Todo(0, length)>>
    /\ delivered' = delivered \o buffer
    /\ pc' = "reduce"
    /\ UNCHANGED <<input, pos, flux, length, ret, requests, failed, prev>>
    /\ UNCHANGED harnessVars

\* bytes = bytes + length; then flux_over_byte_string(&buffer) starts.
CountBytes ==
    /\ pc = "got"
    /\ bytes' = bytes + length
    /\ parts' = <<Todo(0, length)>>
    /\ delivered' = delivered \o buffer
    /\ pc' = "reduce"
    /\ UNCHANGED <<input, pos, flux, length, ret, requests, failed, prev>>
    /\ UNCHANGED harnessVars

\* The running Flux replaced by the buffer's instead of spanned with it.
MergeReplace ==
    /\ pc = "reduce"
    /\ call = "wc"
    /\ Reduced
    /\ flux' = parts[1].val
    /\ parts' = << >>
    /\ pc' = "consume"
    /\ UNCHANGED <<input, pos, bytes, length, ret, requests, failed, delivered, prev>>
    /\ UNCHANGED harnessVars

\* The merge with its operands exchanged: the buffer's Flux on the left of
\* the running one.
MergeSwapped ==
    /\ pc = "reduce"
    /\ call = "wc"
    /\ Reduced
    /\ flux' = span_opt(parts[1].val, flux)
    /\ parts' = << >>
    /\ pc' = "consume"
    /\ UNCHANGED <<input, pos, bytes, length, ret, requests, failed, delivered, prev>>
    /\ UNCHANGED harnessVars

\* flux = span_opt(flux, flux_over_byte_string(&buffer))
Merge ==
    /\ pc = "reduce"
    /\ call = "wc"
    /\ Reduced
    /\ flux' = span_opt(flux, parts[1].val)
    /\ parts' = << >>
    /\ pc' = "consume"
    /\ UNCHANGED <<input, pos, bytes, length, ret, requests, failed, delivered, prev>>
    /\ UNCHANGED harnessVars

\* The loop left after the first buffer: consume, then break and return.
ConsumeAndReturn ==
    /\ pc = "consume"
    /\ pos' = pos + length
    /\ ret' = <<"Ok", Counts(bytes,
                             IF flux = None THEN 0 ELSE flux[1].words,
                             IF flux = None THEN 0 ELSE flux[1].lines)>>
    /\ pc' = "done"
    /\ UNCHANGED <<input, bytes, flux, length, parts, requests, failed, delivered, prev>>
    /\ UNCHANGED harnessVars

\* input.consume(length)
Consume ==
    /\ pc = "consume"
    /\ pos' = pos + length
    /\ pc' = "fill"
    /\ UNCHANGED <<input, bytes, flux, length, parts, ret, requests, failed, delivered, prev>>
    /\ UNCHANGED harnessVars

\* wc(&mut reader) is entered: let mut bytes = 0; let mut flux = None.
Init ==
    /\ input \in SeqsUpTo(StreamAlphabet, MaxLen)
    /\ pos = 0
    /\ pc = "fill"
    /\ bytes = 0
    /\ flux = None
    /\ length = 0
    /\ parts = << >>
    /\ ret = << >>
    /\ requests = 0
    /\ failed = FALSE
    /\ delivered = << >>
    /\ prev = << >>
    /\ call = "wc"
    /\ args = << >>
    /\ out = << >>

Parallel ==
    \/ \E i \in 1 .. Len(parts) : \E m \in parts[i].lo .. parts[i].hi : Split(i, m)
    \/ \E i \in 1 .. Len(parts) : FoldLeaf(i)
    \/ \E i \in 1 .. Len(parts) - 1 : Reduce(i)

Next ==
    \/ \E n \in 1 .. Len(input) - pos : FillBuf(n)
    \/ FillBufEof
    \/ FillBufErr
    \/ CountBytes
    \/ Parallel
    \/ Merge
    \/ Consume

\* wc on a source that delivers its buffers and then the end of the input
\* without an error.  The thread running wc keeps running, the worker pool
\* completes the work it is given and the source answers every request, so
\* a step that can be taken is taken.
NextOk ==
    \/ \E n \in 1 .. Len(input) - pos : FillBuf(n)
    \/ FillBufEof
    \/ CountBytes
    \/ Parallel
    \/ Merge
    \/ Consume

SpecLive == Init /\ [][NextOk]_vars /\ WF_vars(NextOk)

\* A second run that goes on from the byte counter and the Flux of the
\* first, as if they were kept in statics.
RestartKeepState ==
    /\ pc = "done"
    /\ prev = << >>
    /\ prev' = <<ret[2], requests>>
    /\ pos' = 0
    /\ length' = 0
    /\ parts' = << >>
    /\ ret' = << >>
    /\ requests' = 0
    /\ delivered' = << >>
    /\ pc' = "fill"
    /\ UNCHANGED <<input, bytes, flux, failed>>
    /\ UNCHANGED harnessVars

\* The program is run again on the same file after a run that returned
\* Counts: main opens the file anew and enters wc, whose locals start from
\* let mut bytes = 0; let mut flux = None.  prev keeps the Counts and the
\* number of fill_buf calls of the first run.
Restart ==
    /\ pc = "done"
    /\ prev = << >>
    /\ prev' = <<ret[2], requests>>
    /\ pos' = 0
    /\ bytes' = 0
    /\ flux' = None
    /\ length' = 0
    /\ parts' = << >>
    /\ ret' = << >>
    /\ requests' = 0
    /\ delivered' = << >>
    /\ pc' = "fill"
    /\ UNCHANGED <<input, failed>>
    /\ UNCHANGED harnessVars

Spec == Init /\ [][Next]_vars


\* wc run on an input and, after it returned Counts, once more.
NextTwice ==
    \/ Next
    \/ Restart

SpecTwice == Init /\ [][NextTwice]_vars

\* ------------------------------------------------- the functions, one by one
\* Every Flux with fields up to MaxCount, reachable from bytes or not.
FluxValues ==
    [leftmost_char_type : CharType, words : 0 .. MaxCount,
     lines : 0 .. MaxCount, rightmost_char_type : CharType]
OptFlux == {None} \cup {Some(f) : f \in FluxValues}

ByteStrings == SeqsUpTo(Alphabet, MaxLen)
Ranges == SeqsUpTo(StreamAlphabet, MaxRange) \ {<< >>}

\* A function of the program and the arguments it is about to be called with.
InitUnit ==
    /\ input = << >>
    /\ pos = 0
    /\ pc = "call"
    /\ bytes = 0
    /\ flux = None
    /\ length = 0
    /\ parts = << >>
    /\ ret = << >>
    /\ requests = 0
    /\ failed = FALSE
    /\ delivered = << >>
    /\ prev = << >>
    /\ out = << >>
    /\ \/ call = "from" /\ args \in {<<b>> : b \in AllBytes}
       \/ call = "span_opt" /\ args \in OptFlux \X OptFlux
       \/ call = "split"
          /\ args \in {<<s, k>> : s \in ByteStrings, k \in 0 .. MaxLen}
          /\ args[2] <= Len(args[1])
       \/ call = "span" /\ args \in Ranges \X Ranges \X Ranges
       \/ call = "flux_over_byte_string"
          /\ args \in {<<s>> : s \in SeqsUpTo(StreamAlphabet, MaxLen)}

\* Flux::from(args[1])
CallFrom ==
    /\ pc = "call" /\ call = "from"
    /\ out' = <<From(args[1])>>
    /\ pc' = "ret"
    /\ UNCHANGED <<input, length, parts, call, args>>
    /\ UNCHANGED wcVars

\* span_opt(args[1], args[2])
CallSpanOpt ==
    /\ pc = "call" /\ call = "span_opt"
    /\ out' = <<span_opt(args[1], args[2])>>
    /\ pc' = "ret"
    /\ UNCHANGED <<input, length, parts, call, args>>
    /\ UNCHANGED wcVars

\* The byte string args[1] cut at offset args[2], as the tests test_span_opt_*
\* do: span_opt(flux_over_byte_string(l), flux_over_byte_string(r)).
CallSplit ==
    /\ pc = "call" /\ call = "split"
    /\ LET s == args[1]
           k == args[2]
           flux_l == flux_over_byte_string(SubSeq(s, 1, k))
           flux_r == flux_over_byte_string(SubSeq(s, k + 1, Len(s)))
       IN  out' = <<span_opt(flux_l, flux_r)>>
    /\ pc' = "ret"
    /\ UNCHANGED <<input, length, parts, call, args>>
    /\ UNCHANGED wcVars

\* The Fluxes a, b, c of the adjacent ranges args[1], args[2], args[3]
\* spanned in both groupings: a.span(b).span(c) and a.span(b.span(c)).
CallSpan ==
    /\ pc = "call" /\ call = "span"
    /\ LET a == flux_over_byte_string(args[1])[1]
           b == flux_over_byte_string(args[2])[1]
           c == flux_over_byte_string(args[3])[1]
       IN  out' = <<span(span(a, b), c), span(a, span(b, c))>>
    /\ pc' = "ret"
    /\ UNCHANGED <<input, length, parts, call, args>>
    /\ UNCHANGED wcVars

\* flux_over_byte_string(args[1]) is entered: the parallel iterator starts
\* with the whole byte string as its only sub-range.
CallFlux ==
    /\ pc = "call" /\ call = "flux_over_byte_string"
    /\ input' = args[1]
    /\ length' = Len(args[1])
    /\ parts' = <<Todo(0, Len(args[1]))>>
    /\ pc' = "reduce"
    /\ UNCHANGED <<call, args, out>>
    /\ UNCHANGED wcVars

\* flux_over_byte_string returns the result of the reduction.
ReturnFlux ==
    /\ pc = "reduce" /\ call = "flux_over_byte_string"
    /\ Reduced
    /\ out' = <<parts[1].val>>
    /\ parts' = << >>
    /\ pc' = "ret"
    /\ UNCHANGED <<input, length, call, args>>
    /\ UNCHANGED wcVars

NextUnit ==
    \/ CallFrom
    \/ CallSpanOpt
    \/ CallSplit
    \/ CallSpan
    \/ CallFlux
    \/ Parallel
    \/ ReturnFlux

SpecUnit == InitUnit /\ [][NextUnit]_vars

\* The functions with the parallel iterator free to hand a worker an empty
\* sub-range, as the contract of fold and reduce allows.
NextContract ==
    \/ NextUnit
    \/ \E i \in 1 .. Len(parts) : \E m \in {parts[i].lo, parts[i].hi} : SplitEmpty(i, m)

SpecContract == InitUnit /\ [][NextContract]_vars


\* ================================================================== claims
\* The reference the claims compare with: one sequential left-to-right scan.
\* A byte is whitespace when the program's test, is_ascii_whitespace, says so.
\* A word starts at every non-whitespace byte that is the first byte or
\* follows a whitespace byte, so the words are the maximal runs of
\* non-whitespace bytes.
ScanWords(s) ==
    Cardinality({i \in 1 .. Len(s) :
        /\ ~is_ascii_whitespace(s[i])
        /\ (i = 1 \/ is_ascii_whitespace(s[i - 1]))})
ScanLines(s) == Cardinality({i \in 1 .. Len(s) : s[i] = 10})
ClassOf(b) == IF is_ascii_whitespace(b) THEN IsSpace ELSE NotSpace

\* C1: whatever non-empty buffers the source delivers the input in, wc
\* returns bytes = the length of the input, words = the number of maximal
\* runs of non-whitespace bytes and lines = the number of '\n' bytes of one
\* sequential scan; the empty input gives {0, 0, 0}.
C1_wc_equals_sequential_scan ==
    pc = "done" =>
        ret = <<"Ok", Counts(Len(input), ScanWords(input), ScanLines(input))>>

\* Two words and a line counted over an input delivered in three buffers or
\* more (the fourth request is the one that reports the end of the input).
C1_witness ==
    /\ pc = "done"
    /\ requests >= 4
    /\ ret = <<"Ok", Counts(4, 2, 1)>>

\* C2 (as claimed): for every byte string and every split offset from 0 to
\* its length, span_opt of the two parts' Fluxes equals the Flux of the whole.
C2_split_equals_whole ==
    (call = "split" /\ pc = "ret") =>
        out[1] = flux_over_byte_string(args[1])

\* C3: span is associative on the Fluxes of three adjacent non-empty ranges.
C3_span_associative ==
    (call = "span" /\ pc = "ret") => out[1] = out[2]

\* Three ranges of two bytes each, with a word straddling both boundaries.
C3_witness ==
    /\ call = "span" /\ pc = "ret"
    /\ \A k \in 1 .. 3 : Len(args[k]) = 2
    /\ args[1][2] = 97 /\ args[2] = <<97, 97>> /\ args[3][1] = 97
    /\ args[1][1] = 32
    /\ out[1] = FluxNew(IsSpace, 1, 0, out[1].rightmost_char_type)

\* C4 (as claimed): span_opt with an absent Flux on either side returns the
\* other operand unchanged.
C4_absent_is_identity ==
    (call = "span_opt" /\ pc = "ret") =>
        /\ (args[1] = None => out[1] = args[2])
        /\ (args[2] = None => out[1] = args[1])

\* C5 (as claimed): From classifies a byte IsSpace exactly when it is space,
\* tab, newline, carriage return, vertical tab or form feed.
C5_six_whitespace_bytes ==
    (call = "from" /\ pc = "ret") =>
        (out[1].leftmost_char_type = IsSpace <=> args[1] \in {32, 9, 10, 13, 11, 12})

\* The sub-ranges cover the buffer in byte-position order, without gap or
\* overlap.
PartsInOrder ==
    /\ Len(parts) >= 1
    /\ parts[1].lo = 0
    /\ parts[Len(parts)].hi = length
    /\ \A i \in 1 .. Len(parts) - 1 : parts[i].hi = parts[i + 1].lo

\* C6: within one buffer, however it is divided among the workers, in
\* whatever order they complete and whatever the shape of the reduction,
\* every partial Flux is that of a sequential fold of the bytes of its
\* sub-range in position order, and so is the result.
C6_schedule_independent ==
    /\ pc = "reduce" =>
        /\ PartsInOrder
        /\ \A i \in 1 .. Len(parts) :
            parts[i].done =>
                parts[i].val =
                    flux_over_byte_string(SubSeq(buffer, parts[i].lo + 1, parts[i].hi))
    /\ (call = "flux_over_byte_string" /\ pc = "ret") =>
        out[1] = flux_over_byte_string(args[1])

\* A buffer of four bytes in three sub-ranges: the two on the right are done
\* (the middle one combined from two workers' results, or folded by one),
\* the left one is still to be folded.
C6_witness ==
    /\ pc = "reduce"
    /\ length = 4
    /\ Len(parts) = 3
    /\ ~parts[1].done /\ parts[2].done /\ parts[3].done
    /\ parts[2].hi - parts[2].lo = 2
    /\ parts[2].val = Some(FluxNew(NotSpace, 1, 0, IsSpace))

\* C7 (as claimed): flux_over_byte_string returns None exactly for the empty
\* buffer, also when a worker is left with an empty sub-range; a buffer of
\* whitespace only gives Some Flux with both classes IsSpace and no word.
C7_none_iff_empty ==
    (call = "flux_over_byte_string" /\ pc = "ret") =>
        /\ (out[1] = None <=> args[1] = << >>)
        /\ (args[1] # << >> /\ \A i \in 1 .. Len(args[1]) : is_ascii_whitespace(args[1][i]))
            => /\ out[1] # None
               /\ out[1][1].leftmost_char_type = IsSpace
               /\ out[1][1].rightmost_char_type = IsSpace
               /\ out[1][1].words = 0

\* C8: a failed fill_buf ends wc with the error: no request follows it, the
\* result stays the error, and Counts are returned only when no request
\* failed and the whole input was consumed.
C8_error_is_final ==
    /\ [](failed => ret = <<"Err">>)
    /\ []((Len(ret) > 0 /\ ret[1] = "Ok") => (~failed /\ pos = Len(input)))
    /\ [][failed => (requests' = requests /\ ret' = ret /\ pc' = pc)]_vars

\* The third request fails after two buffers were merged.
C8_witness ==
    /\ failed
    /\ requests = 3
    /\ pos = 2
    /\ flux # None

\* C9: the byte counter grows by the length of every buffer received: at
\* the end of every iteration it is the number of bytes consumed, inside an
\* iteration the bytes consumed plus the buffer's, and the returned bytes
\* are the length of the input.
C9_bytes_counts_every_buffer ==
    /\ pc \in {"fill", "got", "done", "err"} => bytes = pos
    /\ pc \in {"reduce", "consume"} => bytes = pos + length
    /\ pc = "done" => ret[2].bytes = Len(input)

\* The counter after a second buffer, of whitespace only, was counted.
C9_witness ==
    /\ pc = "consume"
    /\ pos = 2 /\ length = 2
    /\ bytes = 4
    /\ \A i \in 1 .. Len(buffer) : is_ascii_whitespace(buffer[i])

\* C10: From of a whitespace byte is {IsSpace, 0, lines, IsSpace} with
\* lines = 1 exactly for '\n'; From of any other byte is
\* {NotSpace, 1, 0, NotSpace}.
C10_single_byte_flux ==
    (call = "from" /\ pc = "ret") =>
        LET b == args[1]
            f == out[1]
        IN  /\ is_ascii_whitespace(b) =>
                f = FluxNew(IsSpace, 0, IF b = 10 THEN 1 ELSE 0, IsSpace)
            /\ ~is_ascii_whitespace(b) => f = FluxNew(NotSpace, 1, 0, NotSpace)
            /\ f.leftmost_char_type = f.rightmost_char_type
            /\ f.words \in {0, 1} /\ f.lines \in {0, 1}

\* From applied to a carriage return: whitespace that is no line.
C10_witness ==
    /\ call = "from" /\ pc = "ret"
    /\ args[1] = 13
    /\ out[1] = FluxNew(IsSpace, 0, 0, IsSpace)


\* C11: the buffers are processed one after the other: a buffer is requested
\* only when nothing is being reduced and every byte handed to the reducer
\* so far is consumed; the bytes handed to the reducer are exactly the
\* input's bytes in order (none twice, none skipped), the buffer being
\* reduced included; and the running Flux is that of the buffers merged so
\* far, each as the right operand.
C11_buffers_in_sequence ==
    /\ [](pc \in {"fill", "got", "done", "err"} =>
            /\ parts = << >>
            /\ delivered = SubSeq(input, 1, pos)
            /\ flux = flux_over_byte_string(delivered))
    /\ [](pc = "reduce" =>
            /\ delivered = SubSeq(input, 1, pos + length)
            /\ flux = flux_over_byte_string(SubSeq(input, 1, pos)))
    /\ [](pc = "consume" =>
            /\ delivered = SubSeq(input, 1, pos + length)
            /\ flux = flux_over_byte_string(delivered))
    /\ [](pc = "done" => delivered = input)
    /\ [][requests' # requests =>
            (pc = "fill" /\ parts = << >> /\ pos = Len(delivered))]_vars

\* The third buffer is about to be requested: two were reduced, merged and
\* consumed, three bytes in all, and one byte is left.
C11_witness ==
    /\ pc = "fill"
    /\ requests = 2
    /\ pos = 3
    /\ Len(input) = 4
    /\ delivered = SubSeq(input, 1, 3)
    /\ flux # None

\* C12: a second run of wc on the same input returns the Counts of the
\* first, whatever buffers and schedules the two runs get.
C12_rerun_same_counts ==
    (pc = "done" /\ prev # << >>) => ret[2] = prev[1]

\* The first run got four buffers of one byte, the second one buffer of
\* four bytes, and both counted two words.
C12_witness ==
    /\ pc = "done"
    /\ prev # << >>
    /\ prev[2] = 5
    /\ requests = 2
    /\ ret[2] = Counts(4, 2, 0)


\* C13: the Flux flux_over_byte_string computes for a non-empty byte range
\* has the class of the first byte as leftmost_char_type, the class of the
\* last byte as rightmost_char_type, the number of '\n' bytes as lines and
\* the number of maximal runs of non-whitespace bytes as words.
C13_flux_of_range ==
    (call = "flux_over_byte_string" /\ pc = "ret" /\ args[1] # << >>) =>
        LET s == args[1]
        IN  out[1] = Some(FluxNew(ClassOf(s[1]), ScanWords(s), ScanLines(s),
                                  ClassOf(s[Len(s)])))

\* The range " a\na": whitespace first, a word last, two words, one line.
C13_witness ==
    /\ call = "flux_over_byte_string" /\ pc = "ret"
    /\ args[1] = <<32, 97, 10, 97>>
    /\ out[1] = Some(FluxNew(IsSpace, 2, 1, NotSpace))

\* C14: without an error of the source wc returns Counts in the end; the
\* loop ends at a request that reports zero bytes, which the source does
\* when the whole input is consumed, and at no other request.
C14_wc_terminates ==
    /\ <>(pc = "done")
    /\ [](pc = "done" =>
            (length = 0 /\ pos = Len(input) /\ Len(ret) = 2 /\ ret[1] = "Ok"))
    /\ [][requests' # requests => (length' = 0 <=> pc' = "done")]_vars
    /\ [][(pc' = "done" /\ pc # "done") => requests' = requests + 1]_vars

\* wc returned after four buffers of one byte and the request that reported
\* the end of the input.
C14_witness ==
    /\ pc = "done"
    /\ requests = 5
    /\ Len(input) = 4
    /\ ret[1] = "Ok"

\* A Flux span can be handed: no negative count, and a word wherever an end
\* of the range is NotSpace.
SpanOperand(f) ==
    /\ f.words >= 0 /\ f.lines >= 0
    /\ (f.leftmost_char_type = NotSpace \/ f.rightmost_char_type = NotSpace)
        => f.words >= 1

\* The words of l and r sum to at least 2 when span(l, r) takes the
\* NotSpace-to-NotSpace branch.
NoUnderflow(l, r) ==
    (l # None /\ r # None
     /\ l[1].rightmost_char_type = NotSpace /\ r[1].leftmost_char_type = NotSpace)
        => l[1].words + r[1].words >= 2

\* C15: the subtraction in span never underflows: every Flux of the running
\* state and every partial Flux has a word wherever one of its ends is
\* NotSpace and no negative count, so every span about to be taken on a
\* NotSpace-to-NotSpace boundary (two adjacent partial results, or the
\* running Flux and the buffer's) has operands whose words sum to 2 or more.
C15_span_never_underflows ==
    /\ flux # None => SpanOperand(flux[1])
    /\ \A i \in 1 .. Len(parts) :
        parts[i].val # None => SpanOperand(parts[i].val[1])
    /\ \A i \in 1 .. Len(parts) - 1 :
        (parts[i].done /\ parts[i + 1].done) =>
            NoUnderflow(parts[i].val, parts[i + 1].val)
    /\ (pc = "reduce" /\ Reduced) => NoUnderflow(flux, parts[1].val)

\* The merge of a buffer that starts inside the word the running Flux ends
\* in, one word on each side: the sum is exactly 2.
C15_witness ==
    /\ pc = "reduce" /\ Reduced
    /\ flux # None
    /\ flux[1].rightmost_char_type = NotSpace
    /\ parts[1].val[1].leftmost_char_type = NotSpace
    /\ flux[1].words + parts[1].val[1].words = 2

\* C16: at the end of every iteration the running Flux is absent exactly
\* when no byte was counted; once present it stays present, and its leftmost
\* class is and stays the class of the first byte of the input.
C16_running_flux_present ==
    /\ [](pc = "fill" => (flux = None <=> bytes = 0))
    /\ [](flux # None => flux[1].leftmost_char_type = ClassOf(input[1]))
    /\ [][flux # None =>
            /\ flux' # None
            /\ flux'[1].leftmost_char_type = flux[1].leftmost_char_type]_vars

\* Three buffers merged: the input starts with a space and ends in a word.
C16_witness ==
    /\ pc = "fill"
    /\ requests = 3
    /\ pos = 4
    /\ input[1] = 32 /\ input[4] = 97
    /\ flux # None
    /\ flux[1].leftmost_char_type = IsSpace
    /\ flux[1].rightmost_char_type = NotSpace

\* C17: every iteration increases the byte counter, and no step decreases
\* the words or the lines of the running Flux, the merge across a
\* NotSpace-to-NotSpace buffer boundary included.
C17_counters_monotonic ==
    [][/\ bytes' >= bytes
       /\ (pc = "got" /\ pc' # pc) => bytes' > bytes
       /\ flux # None =>
            /\ flux' # None
            /\ flux'[1].words >= flux[1].words
            /\ flux'[1].lines >= flux[1].lines]_vars

\* A second buffer that went on with the word of the first was merged: the
\* words stayed 1.
C17_witness ==
    /\ pc = "consume"
    /\ requests = 2
    /\ delivered = <<97, 97, 97>>
    /\ flux = Some(FluxNew(NotSpace, 1, 0, NotSpace))

====
